---- MODULE Spec2Model ----
(***************************************************************************)
(* Model of the document viewer of docgen-azure (ViewerPage in             *)
(* frontend/src/pages/UploadPage.js): the per-region edited flags          *)
(* (localEditedRef), the registry of editable elements (pageContentRefs),  *)
(* the React state (documentData, loading, currentItem, preview)    *)
(* and the asynchronous save / regenerate / fetch / export handlers.       *)
(*                                                                         *)
(* One action is one run of a handler (or of the continuation after its    *)
(* await) together with the React commit that its state updates cause.     *)
(* The commit is the operator Commit: it mounts or unmounts the editors    *)
(* according to `loading` and runs every mounted editor's ref callback.    *)
(* A JavaScript object is a function whose DOMAIN is the set of its own    *)
(* keys; an element is represented by its innerHTML; markup is a sequence  *)
(* of tokens.                                                              *)
(*                                                                         *)
(* SpecUpload models the upload page (UploadPage in the same file) with    *)
(* its draft of the raw text in localStorage; SpecAuth models the routes   *)
(* of App.js, ProtectedRoute, and the login, signup and logout handlers.   *)
(***************************************************************************)
EXTENDS Integers, Sequences, FiniteSets, Bags, TLC

VARIABLES documentData, loading, pageContentRefs, localEditedRef,
          currentItem, openPreview, previewUrl, objectURLs, inflight, timers,
          lastOp, rawText, localStorage, pathname

vars == <<documentData, loading, pageContentRefs, localEditedRef,
          currentItem, openPreview, previewUrl, objectURLs, inflight, timers,
          lastOp, rawText, localStorage, pathname>>

\* what the viewer page does not touch: the text of the upload page, the
\* browser's localStorage and the route shown (location.pathname)
outside == <<rawText, localStorage, pathname>>

\* the preview dialog: its open flag, its URL and the object URLs of the page
\* that are not revoked
preview == <<openPreview, previewUrl, objectURLs>>

(* ------------------------------ bounds --------------------------------- *)
\* requests awaiting their response at one time
MaxInFlight == 2
\* scheduled populateEditorsFromDocument calls not yet run
MaxTimers == 2
\* longest innerHTML (in characters and mark tags) a search may produce
MaxHtml == 16

(* ------------------------------ values --------------------------------- *)
Null == [null |-> TRUE]

EmptyObject == [k \in {} |-> TRUE]

EmptyHtml == <<>>

\* the words of the markup; the tags <mark> and </mark> are tokens of their own
TextTokens == {"a"}

\* markup a server or a user can produce: empty, or one word
Contents == {EmptyHtml} \cup {<<t>> : t \in TextTokens}

\* the regions of the viewed document, by name, in array order
PageNames == <<"Intro">>

SectionNames == <<"Body">>

Modes == {"page", "section"}

\* what the user types into the search box: letters and a double quote
SearchQueries == {<<"a">>, <<"b">>, <<"A", "b">>, <<"n">>, <<"\"">>}

\* refKey = `${mode}${index}` (index counted from 0 as in the code)
RefKey(mode, index) == <<mode, index>>

\* the arrays a server can send for the regions named in names
RawSeqs(names) ==
  {[i \in DOMAIN names |-> [name |-> names[i], content |-> cs[i]]] :
     cs \in [DOMAIN names -> Contents]}

\* the document payloads a server response can carry
ServerPayloads ==
  {[pages |-> p, sections |-> s] : p \in RawSeqs(PageNames), s \in RawSeqs(SectionNames)}

(* --------------------------- pure helpers ------------------------------ *)
Has(o, f) == f \in DOMAIN o

\* a field that is absent or has one of the values vals
Opt(f, vals) == {EmptyObject} \cup {f :> v : v \in vals}

\* a test that takes every present field for set
TruthyField_present(o, f) == Has(o, f)

\* JavaScript truthiness of a string-valued field that may be absent
TruthyField(o, f) == Has(o, f) /\ o[f] # ""

\* a normalizer whose second test is the else branch of the first, without the
\* test of the mode
normalizeShape_elseIf(obj, mode) ==
  IF obj = Null THEN obj
  ELSE IF ~TruthyField(obj, "type") /\ mode = "section" THEN ("type" :> "text") @@ obj
  ELSE IF ~TruthyField(obj, "layout") THEN ("layout" :> "text") @@ obj
  ELSE obj

normalizeShape(obj, mode) ==
  IF obj = Null THEN obj
  ELSE LET o1 == IF ~TruthyField(obj, "type") /\ mode = "section"
                 THEN ("type" :> "text") @@ obj ELSE obj
           o2 == IF ~TruthyField(o1, "layout") /\ mode = "page"
                 THEN ("layout" :> "text") @@ o1 ELSE o1
       IN o2

normalizeDocument(doc) ==
  IF doc = Null THEN [pages |-> <<>>, sections |-> <<>>]
  ELSE LET ps == IF Has(doc, "pages") THEN doc.pages ELSE <<>>
           ss == IF Has(doc, "sections") THEN doc.sections ELSE <<>>
       IN ("pages" :> [i \in DOMAIN ps |-> normalizeShape(ps[i], "page")]) @@
          ("sections" :> [i \in DOMAIN ss |-> normalizeShape(ss[i], "section")]) @@
          doc

\* the array of a mode in a document
Items(doc, mode) == IF mode = "page" THEN doc.pages ELSE doc.sections

\* the region keys of a document (the keys its editors are rendered under)
RegionKeys(doc) ==
  IF doc = Null THEN {}
  ELSE {RefKey("page", i - 1) : i \in DOMAIN doc.pages} \cup
       {RefKey("section", i - 1) : i \in DOMAIN doc.sections}

ItemAt(doc, k) == Items(doc, k[1])[k[2] + 1]

\* item.content || ""
ContentOr(item) == IF Has(item, "content") THEN item.content ELSE EmptyHtml

\* localEditedRef.current[refKey] in a boolean context
IsEdited(flags, k) == k \in DOMAIN flags /\ flags[k]

\* resetRefs that keeps the flags it finds
resetRefsFlags_stale(doc) == [k \in RegionKeys(doc) |-> IsEdited(localEditedRef, k)]

resetRefsFlags(doc) == [k \in RegionKeys(doc) |-> FALSE]

\* a save that marks the saved region clean
markSaved_clear(flags, k) == (k :> FALSE) @@ flags

\* localEditedRef.current[refKey] = true after a successful save
markSaved(flags, k) == (k :> TRUE) @@ flags

\* assignment obj[k] = v on a JavaScript object
Put(obj, k, v) == (k :> v) @@ obj

\* the editors are in the DOM: render shows them only while not loading
EditorsShown(doc, ld) == ~ld /\ doc # Null

\* the elements attached to the DOM, by region key (each is the registered one)
AttachedDom(doc, ld, refs) ==
  IF EditorsShown(doc, ld)
  THEN [k \in RegionKeys(doc) \cap DOMAIN refs |-> refs[k]]
  ELSE EmptyObject

\* the character reference of an ampersand in serialized markup
Amp == <<"&", "a", "m", "p", ";">>

RECURSIVE SetInnerHTML(_)
\* el.innerHTML = markup, as el.innerHTML reads afterwards: the markup is parsed
\* and serialized again, so an ampersand that starts no character reference
\* comes back as its character reference
SetInnerHTML(markup) ==
  IF markup = <<>> THEN <<>>
  ELSE IF Head(markup) # "&" THEN <<Head(markup)>> \o SetInnerHTML(Tail(markup))
  ELSE IF Len(markup) >= 5 /\ SubSeq(markup, 1, 5) = Amp
       THEN Amp \o SetInnerHTML(SubSeq(markup, 6, Len(markup)))
       ELSE Amp \o SetInnerHTML(Tail(markup))

\* ref callback of renderEditable for one element whose innerHTML is html
RefCallbackHtml(flags, k, html, item) ==
  IF ~IsEdited(flags, k) /\ html = EmptyHtml THEN SetInnerHTML(ContentOr(item)) ELSE html

\* React commit after a handler: dom is what was attached before it, refs and
\* flags are the registry and the flags as the handler left them
Commit(doc, ld, refs, flags, dom) ==
  IF ~EditorsShown(doc, ld) THEN refs
  ELSE [k \in DOMAIN refs \cup RegionKeys(doc) |->
          IF k \in RegionKeys(doc)
          THEN RefCallbackHtml(flags, k,
                 IF k \in DOMAIN dom THEN dom[k] ELSE EmptyHtml,
                 ItemAt(doc, k))
          ELSE refs[k]]

\* populateEditorsFromDocument without the test of the edited flag
populateEditorsFromDocument_overwrite(doc, refs, flags) ==
  IF doc = Null THEN refs
  ELSE [k \in DOMAIN refs |->
          IF k \in RegionKeys(doc) THEN SetInnerHTML(ContentOr(ItemAt(doc, k)))
          ELSE refs[k]]

populateEditorsFromDocument(doc, refs, flags) ==
  IF doc = Null THEN refs
  ELSE [k \in DOMAIN refs |->
          IF k \in RegionKeys(doc) /\ ~IsEdited(flags, k)
          THEN SetInnerHTML(ContentOr(ItemAt(doc, k))) ELSE refs[k]]

NoKey == <<"none", 0>>

\* the initial and the cleared previewUrl, the empty string
NoUrl == <<>>

\* the argument of a setSnack call; a message is the list of the parts of its
\* template literal
Snack(msg, sev) == [open |-> TRUE, message |-> msg, severity |-> sev]

\* what the last handler run was, and the argument of its setSnack call
\* (Null when it made none)
OpSnack(name, k, sn) == [op |-> name, key |-> k, setSnack |-> sn]

Op(name, k) == OpSnack(name, k, Null)

\* err.response.data.detail of a rejected call: none ("" here) or a message
\* the server supplied
Details == {"", "Not authorized"}

\* a handled rejection: also the detail its error carried
OpError(name, k, sn, detail) ==
  [op |-> name, key |-> k, setSnack |-> sn, detail |-> detail]

\* a handled response: also the payload it carried and the keys whose edited
\* flag was true when it arrived
OpResponse(name, k, sn, payload) ==
  [op |-> name, key |-> k, setSnack |-> sn, payload |-> payload,
   dirtyBefore |-> {j \in DOMAIN localEditedRef : localEditedRef[j]}]

Request(name, k) == [op |-> name, key |-> k]

Issue(req) == inflight' = inflight (+) SetToBag({req})

\* a handled outcome whose request stays in flight, to be answered again
Settle_retry(req) == inflight' = inflight

\* the awaited promise of req settles: req is in flight no more
Settle(req) == inflight' = inflight (-) SetToBag({req})

Pending(name) == {r \in BagToSet(inflight) : r.op = name}

\* the api.post of handleSave for region k; later tells whether a save of the
\* same region was awaiting its response when this one was issued
SaveRequest(k, name) ==
  [op |-> "save", key |-> k, name |-> name,
   later |-> \E r \in Pending("save") : r.key = k]

\* the api.get of fetchDocument; later tells whether an earlier fetch (of the
\* id viewed before) was awaiting its response when this one was issued
FetchRequest ==
  [op |-> "fetch", key |-> NoKey, later |-> Pending("fetch") # {}]

CanIssue == BagCardinality(inflight) < MaxInFlight

CanSchedule == Len(timers) < MaxTimers

(* ------------------------------ state ---------------------------------- *)
\* the route /viewer/:id is shown to a signed-in user; the upload page is not
\* mounted and no draft is stored (a generate removed it)
ViewerShown ==
  /\ rawText = <<>>
  /\ localStorage = [user |-> [role |-> "user"], token |-> "token"]
  /\ pathname = "/viewer"

\* after the first render and its effect: nothing loaded, the fetch is issued
Init ==
  /\ documentData = Null
  /\ loading = TRUE
  /\ pageContentRefs = EmptyObject
  /\ localEditedRef = EmptyObject
  /\ currentItem = Null
  /\ openPreview = FALSE
  /\ previewUrl = NoUrl
  /\ objectURLs = {}
  /\ inflight = SetToBag({[op |-> "fetch", key |-> NoKey, later |-> FALSE]})
  /\ timers = <<>>
  /\ lastOp = Op("mount", NoKey)
  /\ ViewerShown

\* the MUI Dialogs are modal: while one is open the page behind takes no input
NoDialog == currentItem = Null /\ ~openPreview

Dom == AttachedDom(documentData, loading, pageContentRefs)

\* the commit of a handler's state updates: re-render with doc and ld
Rerender(doc, ld, refs, flags) ==
  pageContentRefs' = Commit(doc, ld, refs, flags, Dom)

(* ----------------------------- fetch ----------------------------------- *)
\* useEffect on [id]: the viewed id changes and fetchDocument starts; lastOp.key
\* remembers the region whose save succeeded in the step before, if any
FetchStart ==
  /\ CanIssue
  /\ loading' = TRUE
  /\ Issue(FetchRequest)
  /\ Rerender(documentData, TRUE, pageContentRefs, localEditedRef)
  /\ lastOp' = Op("FetchStart", IF lastOp.op = "SaveSuccess" THEN lastOp.key ELSE NoKey)
  /\ UNCHANGED <<outside, documentData, localEditedRef, currentItem, preview, timers>>

\* a successful load that does not call resetRefs
LoadDone_noReset(updated) ==
  /\ documentData' = updated
  /\ localEditedRef' = localEditedRef
  /\ timers' = Append(timers, updated)
  /\ loading' = FALSE
  /\ Rerender(updated, FALSE, pageContentRefs, localEditedRef)

\* the part of fetchDocument, handleRegenerate and handleRegenerateDocument
\* after a successful await, up to and including finally
LoadDone(updated) ==
  /\ documentData' = updated
  /\ localEditedRef' = resetRefsFlags(updated)
  /\ timers' = Append(timers, updated)
  /\ loading' = FALSE
  /\ Rerender(updated, FALSE, EmptyObject, resetRefsFlags(updated))

FetchSuccess ==
  \E req \in Pending("fetch"), payload \in ServerPayloads :
    /\ CanSchedule
    /\ Settle(req)
    /\ LoadDone(normalizeDocument(payload))
    /\ lastOp' = ("later" :> req.later) @@
                  OpResponse("FetchSuccess",
                             IF lastOp.op = "FetchStart" THEN lastOp.key ELSE NoKey,
                             Null, payload)
    /\ UNCHANGED <<outside, currentItem, preview>>

\* a failed load without the finally block
LoadFail_noFinally ==
  /\ loading' = loading
  /\ Rerender(documentData, loading, pageContentRefs, localEditedRef)
  /\ UNCHANGED <<outside, documentData, localEditedRef, currentItem, preview, timers>>

\* catch and finally of fetchDocument, handleRegenerate and
\* handleRegenerateDocument
LoadFail ==
  /\ loading' = FALSE
  /\ Rerender(documentData, FALSE, pageContentRefs, localEditedRef)
  /\ UNCHANGED <<outside, documentData, localEditedRef, currentItem, preview, timers>>

FetchFail ==
  \E req \in Pending("fetch"), detail \in Details :
    /\ Settle(req)
    /\ LoadFail
    /\ lastOp' = OpError("FetchFail", NoKey,
                   Snack(IF detail # "" THEN <<detail>> ELSE <<"Failed to load document">>,
                         "error"),
                   detail)

\* an onInput that does not set the edited flag
Edit_noFlag ==
  \E k \in RegionKeys(documentData), html \in Contents :
    /\ NoDialog
    /\ EditorsShown(documentData, loading)
    /\ k \in DOMAIN pageContentRefs
    /\ html # pageContentRefs[k]
    /\ LET flags == localEditedRef
           item == ("content" :> html) @@ ItemAt(documentData, k)
           arr == [Items(documentData, k[1]) EXCEPT ![k[2] + 1] = item]
           copy == IF k[1] = "page" THEN ("pages" :> arr) @@ documentData
                   ELSE ("sections" :> arr) @@ documentData
       IN /\ localEditedRef' = flags
          /\ documentData' = copy
          /\ pageContentRefs' = Commit(copy, loading, Put(pageContentRefs, k, html),
                                       flags, Put(Dom, k, html))
    /\ lastOp' = Op("Edit", k)
    /\ UNCHANGED <<outside, loading, currentItem, preview, inflight, timers>>

(* ------------------------- local edit (onInput) ------------------------ *)
\* the user changes the markup of a shown editor to html; onInput runs
Edit ==
  \E k \in RegionKeys(documentData), html \in Contents :
    /\ NoDialog
    /\ EditorsShown(documentData, loading)
    /\ k \in DOMAIN pageContentRefs
    /\ html # pageContentRefs[k]
    /\ LET flags == Put(localEditedRef, k, TRUE)
           item == ("content" :> html) @@ ItemAt(documentData, k)
           arr == [Items(documentData, k[1]) EXCEPT ![k[2] + 1] = item]
           copy == IF k[1] = "page" THEN ("pages" :> arr) @@ documentData
                   ELSE ("sections" :> arr) @@ documentData
       IN /\ localEditedRef' = flags
          /\ documentData' = copy
          /\ pageContentRefs' = Commit(copy, loading, Put(pageContentRefs, k, html),
                                       flags, Put(Dom, k, html))
    /\ lastOp' = Op("Edit", k)
    /\ UNCHANGED <<outside, loading, currentItem, preview, inflight, timers>>

(* ------------------------------- save ---------------------------------- *)
\* handleSave up to its await: reads the registered element and posts
SaveStart ==
  \E k \in RegionKeys(documentData) :
    /\ NoDialog
    /\ EditorsShown(documentData, loading)
    /\ k \in DOMAIN pageContentRefs
    /\ CanIssue
    /\ Issue(SaveRequest(k, ItemAt(documentData, k).name))
    /\ lastOp' = ("html" :> pageContentRefs[k]) @@ Op("SaveStart", k)
    /\ UNCHANGED <<outside, documentData, loading, pageContentRefs, localEditedRef,
                   currentItem, preview, timers>>

SaveSuccess ==
  \E req \in Pending("save"), payload \in ServerPayloads :
    /\ CanSchedule
    /\ Settle(req)
    /\ LET updated == normalizeDocument(payload)
           flags == markSaved(localEditedRef, req.key)
       IN /\ documentData' = updated
          /\ localEditedRef' = flags
          /\ timers' = Append(timers, updated)
          /\ Rerender(updated, loading, pageContentRefs, flags)
    /\ lastOp' = ("later" :> req.later) @@
                  OpResponse("SaveSuccess", req.key,
                             Snack(<<req.key[1], " \"", req.name, "\" saved">>, "success"),
                             payload)
    /\ UNCHANGED <<outside, loading, currentItem, preview>>

\* a failed save that resets the edited flags
SaveFail_resets ==
  \E req \in Pending("save"), detail \in Details :
    /\ Settle(req)
    /\ localEditedRef' = resetRefsFlags(documentData)
    /\ Rerender(documentData, loading, pageContentRefs, localEditedRef')
    /\ lastOp' = OpError("SaveFail", req.key,
                         Snack(<<"Failed to save ", req.key[1]>>, "error"), detail)
    /\ UNCHANGED <<outside, documentData, loading, currentItem,
                   preview, timers>>

SaveFail ==
  \E req \in Pending("save"), detail \in Details :
    /\ Settle(req)
    /\ Rerender(documentData, loading, pageContentRefs, localEditedRef)
    /\ lastOp' = OpError("SaveFail", req.key,
                         Snack(<<"Failed to save ", req.key[1]>>, "error"), detail)
    /\ UNCHANGED <<outside, documentData, loading, localEditedRef, currentItem,
                   preview, timers>>

(* --------------------------- regenerate -------------------------------- *)
handleOpenDialog ==
  \E k \in RegionKeys(documentData) :
    /\ NoDialog
    /\ EditorsShown(documentData, loading)
    /\ currentItem' = [_mode |-> k[1], name |-> ItemAt(documentData, k).name]
    /\ Rerender(documentData, loading, pageContentRefs, localEditedRef)
    /\ lastOp' = Op("handleOpenDialog", k)
    /\ UNCHANGED <<outside, documentData, loading, localEditedRef, preview,
                   inflight, timers>>

handleCloseDialog ==
  /\ currentItem # Null
  /\ currentItem' = Null
  /\ Rerender(documentData, loading, pageContentRefs, localEditedRef)
  /\ lastOp' = Op("handleCloseDialog", NoKey)
  /\ UNCHANGED <<outside, documentData, loading, localEditedRef, preview,
                 inflight, timers>>

\* handleRegenerate up to its await
RegenerateStart ==
  /\ currentItem # Null
  /\ CanIssue
  /\ loading' = TRUE
  /\ Issue([op |-> "regenerate", key |-> NoKey, mode |-> currentItem._mode,
            name |-> currentItem.name])
  /\ Rerender(documentData, TRUE, pageContentRefs, localEditedRef)
  /\ lastOp' = Op("RegenerateStart", NoKey)
  /\ UNCHANGED <<outside, documentData, localEditedRef, currentItem, preview, timers>>

RegenerateSuccess ==
  \E req \in Pending("regenerate"), payload \in ServerPayloads :
    /\ CanSchedule
    /\ Settle(req)
    /\ LoadDone(normalizeDocument(payload))
    /\ currentItem' = Null
    /\ lastOp' = OpResponse("RegenerateSuccess", NoKey,
                            Snack(<<req.mode, " regenerated successfully">>, "success"),
                            payload)
    /\ UNCHANGED <<outside, preview>>

RegenerateFail ==
  \E req \in Pending("regenerate"), detail \in Details :
    /\ Settle(req)
    /\ LoadFail
    /\ lastOp' = OpError("RegenerateFail", NoKey,
                         Snack(<<"Failed to regenerate ", req.mode>>, "error"), detail)

\* handleRegenerateDocument up to its await
RegenerateDocumentStart ==
  /\ NoDialog
  /\ CanIssue
  /\ loading' = TRUE
  /\ Issue(Request("regenerateDocument", NoKey))
  /\ Rerender(documentData, TRUE, pageContentRefs, localEditedRef)
  /\ lastOp' = Op("RegenerateDocumentStart", NoKey)
  /\ UNCHANGED <<outside, documentData, localEditedRef, currentItem, preview, timers>>

RegenerateDocumentSuccess ==
  \E req \in Pending("regenerateDocument"), payload \in ServerPayloads :
    /\ CanSchedule
    /\ Settle(req)
    /\ LoadDone(normalizeDocument(payload))
    /\ lastOp' = OpResponse("RegenerateDocumentSuccess", NoKey,
                            Snack(<<"Document regenerated">>, "success"), payload)
    /\ UNCHANGED <<outside, currentItem, preview>>

RegenerateDocumentFail ==
  \E req \in Pending("regenerateDocument"), detail \in Details :
    /\ Settle(req)
    /\ LoadFail
    /\ lastOp' = OpError("RegenerateDocumentFail", NoKey,
                         Snack(<<"Failed to regenerate document">>, "error"), detail)

(* --------------------- scheduled repopulation -------------------------- *)
\* setTimeout(() => populateEditorsFromDocument(doc), 50) fires, oldest first
PopulateTimer ==
  /\ timers # <<>>
  /\ pageContentRefs' = populateEditorsFromDocument(Head(timers), pageContentRefs,
                                                    localEditedRef)
  /\ timers' = Tail(timers)
  /\ lastOp' = [op |-> "PopulateTimer", key |-> NoKey, setSnack |-> Null,
                doc |-> Head(timers)]
  /\ UNCHANGED <<outside, documentData, loading, localEditedRef, currentItem,
                 preview, inflight>>

(* ------------------------------ search --------------------------------- *)
\* Markup is a sequence of characters in which the tags <mark> and </mark>
\* are single tokens.
IsMark(t) == t \in {"<mark>", "</mark>"}

\* el.querySelectorAll("mark").forEach((m) => { m.outerHTML = m.innerText; })
StripMarks(h) == SelectSeq(h, LAMBDA t : ~IsMark(t))

\* String.prototype.toLowerCase, on the letters of the model
toLowerCase(str) ==
  [i \in DOMAIN str |->
     CASE str[i] = "A" -> "a"
       [] str[i] = "B" -> "b"
       [] OTHER -> str[i]]

RECURSIVE JSONescape(_)
\* the body of a JSON string literal: quote, backslash and newline are escaped
JSONescape(str) ==
  IF str = <<>> THEN <<>>
  ELSE (CASE Head(str) = "\"" -> <<"\\", "\"">>
          [] Head(str) = "\\" -> <<"\\", "\\">>
          [] Head(str) = "\n" -> <<"\\", "n">>
          [] OTHER -> <<Head(str)>>) \o JSONescape(Tail(str))

\* JSON.stringify of a string
JSONstringify(str) == <<"\"">> \o JSONescape(str) \o <<"\"">>

\* String.prototype.includes
Includes(str, q) ==
  \E i \in 0..(Len(str) - Len(q)) : SubSeq(str, i + 1, i + Len(q)) = q

RECURSIVE WrapMatches(_, _)
\* innerHTML.replace(new RegExp(`(${search})`, "gi"), "<mark>$1</mark>") for a
\* search text without regular-expression operators
WrapMatches(h, q) ==
  IF Len(h) < Len(q) THEN h
  ELSE IF toLowerCase(SubSeq(h, 1, Len(q))) = toLowerCase(q)
       THEN <<"<mark>">> \o SubSeq(h, 1, Len(q)) \o <<"</mark>">>
              \o WrapMatches(SubSeq(h, Len(q) + 1, Len(h)), q)
       ELSE <<Head(h)>> \o WrapMatches(Tail(h), q)

\* allItems: pages followed by sections, each with its refKey
AllKeys(doc) ==
  [i \in 1..(Len(doc.pages) + Len(doc.sections)) |->
     IF i <= Len(doc.pages) THEN RefKey("page", i - 1)
     ELSE RefKey("section", i - 1 - Len(doc.pages))]

\* the positions of allItems whose content the predicate of findIndex accepts
Hits(doc, q) ==
  {i \in DOMAIN AllKeys(doc) :
     /\ Has(ItemAt(doc, AllKeys(doc)[i]), "content")
     /\ Includes(toLowerCase(JSONstringify(ItemAt(doc, AllKeys(doc)[i]).content)),
                 toLowerCase(q))}

\* allItems.findIndex(...): 0 when nothing matches, else the least position
FindIndex(doc, q) ==
  IF Hits(doc, q) = {} THEN 0
  ELSE CHOOSE i \in Hits(doc, q) : \A j \in Hits(doc, q) : i <= j

\* JSON.stringify(undefined) is undefined, and undefined.toLowerCase() throws a
\* TypeError: findIndex throws when it comes to an item without a content field
\* before it has found a match
FindIndexThrows(doc, q) ==
  \E i \in DOMAIN AllKeys(doc) :
    /\ ~Has(ItemAt(doc, AllKeys(doc)[i]), "content")
    /\ \A j \in Hits(doc, q) : i < j

\* a run of handleSearch with the search text q; error is the exception that
\* left the handler, "" when it returned
OpSearch(k, q, sn) ==
  [op |-> "handleSearch", key |-> k, setSnack |-> sn, search |-> q, error |-> ""]

\* handleSearch with search = q, after the re-render that typing q caused
Search(q) ==
  /\ NoDialog
  /\ documentData # Null
  /\ LET idx == FindIndex(documentData, q)
         k == AllKeys(documentData)[idx]
         typed == Commit(documentData, loading, pageContentRefs, localEditedRef, Dom)
         marked == SetInnerHTML(WrapMatches(StripMarks(typed[k]), q))
     IN IF FindIndexThrows(documentData, q)
        THEN /\ pageContentRefs' = typed
             /\ lastOp' = [OpSearch(NoKey, q, Null) EXCEPT !.error = "TypeError"]
        ELSE IF idx > 0
        THEN /\ k \in DOMAIN typed => Len(marked) <= MaxHtml
             /\ pageContentRefs' = IF k \in DOMAIN typed THEN Put(typed, k, marked)
                                   ELSE typed
             /\ lastOp' = OpSearch(k, q, Null)
        ELSE /\ pageContentRefs' = typed
             /\ lastOp' = OpSearch(NoKey, q, Snack(<<"Not found">>, "info"))
  /\ UNCHANGED <<outside, documentData, loading, localEditedRef, currentItem, preview,
                 inflight, timers>>

\* the user types a text into the search box (onChange, a re-render) and
\* presses Enter
handleSearch == \E q \in SearchQueries : Search(q)

(* ------------------------- preview and export -------------------------- *)
RECURSIVE Join_reversed(_)
\* a join that puts the later entries first
Join_reversed(parts) ==
  IF parts = <<>> THEN <<>> ELSE Join_reversed(Tail(parts)) \o Head(parts)

RECURSIVE Join(_)
\* [...].join(""): the concatenation of a list of markups
Join(parts) == IF parts = <<>> THEN <<>> ELSE Head(parts) \o Join(Tail(parts))

\* an assembly that reads the Document's content fields instead of the editors
Assemble_fromDocument(doc, refs) ==
  IF doc = Null THEN <<>>
  ELSE Join([i \in DOMAIN doc.pages |-> ContentOr(doc.pages[i])] \o
            [i \in DOMAIN doc.sections |-> ContentOr(doc.sections[i])])

\* joined = [...pageHtml, ...sectionHtml].join(""), each entry the innerHTML of
\* the element registered for the region, "" when there is none
Assemble(doc, refs) ==
  IF doc = Null THEN <<>>
  ELSE LET html(k) == IF k \in DOMAIN refs THEN refs[k] ELSE EmptyHtml
           pageHtml == [i \in DOMAIN doc.pages |-> html(RefKey("page", i - 1))]
           sectionHtml == [i \in DOMAIN doc.sections |-> html(RefKey("section", i - 1))]
       IN Join(pageHtml \o sectionHtml)

\* a run of handleOpenPreview or handleDownload, with the body it assembled
OpAssemble(name) ==
  [op |-> name, key |-> NoKey, setSnack |-> Null,
   joined |-> Assemble(documentData, pageContentRefs)]

\* URL.createObjectURL(blob): a URL different from every unreleased one
createObjectURL(urls) ==
  LET blob(n) == <<"blob:", n>>
      n == CHOOSE i \in 1..(Cardinality(urls) + 1) :
             blob(i) \notin urls /\ \A j \in 1..(i - 1) : blob(j) \in urls
  IN blob(n)

\* URL.revokeObjectURL(url)
revokeObjectURL(urls, url) == urls \ {url}

\* setLoading(true) and setLoading(false) fall in one batch: loading is unchanged
handleOpenPreview ==
  /\ NoDialog
  /\ ~loading
  /\ LET url == createObjectURL(objectURLs)
     IN /\ objectURLs' = objectURLs \cup {url}
        /\ previewUrl' = url
  /\ openPreview' = TRUE
  /\ Rerender(documentData, loading, pageContentRefs, localEditedRef)
  /\ lastOp' = OpAssemble("handleOpenPreview")
  /\ UNCHANGED <<outside, documentData, loading, localEditedRef, currentItem,
                 inflight, timers>>

\* a close that does not revoke the URL
handleClosePreview_noRevoke ==
  /\ openPreview
  /\ objectURLs' = objectURLs
  /\ previewUrl' = NoUrl
  /\ openPreview' = FALSE
  /\ Rerender(documentData, loading, pageContentRefs, localEditedRef)
  /\ lastOp' = Op("handleClosePreview", NoKey)
  /\ UNCHANGED <<outside, documentData, loading, localEditedRef, currentItem,
                 inflight, timers>>

handleClosePreview ==
  /\ openPreview
  /\ objectURLs' = IF previewUrl # NoUrl THEN revokeObjectURL(objectURLs, previewUrl)
                   ELSE objectURLs
  /\ previewUrl' = NoUrl
  /\ openPreview' = FALSE
  /\ Rerender(documentData, loading, pageContentRefs, localEditedRef)
  /\ lastOp' = Op("handleClosePreview", NoKey)
  /\ UNCHANGED <<outside, documentData, loading, localEditedRef, currentItem,
                 inflight, timers>>

\* handleDownload up to its await
DownloadStart ==
  /\ NoDialog
  /\ CanIssue
  /\ loading' = TRUE
  /\ Issue(Request("export", NoKey))
  /\ Rerender(documentData, TRUE, pageContentRefs, localEditedRef)
  /\ lastOp' = OpAssemble("DownloadStart")
  /\ UNCHANGED <<outside, documentData, localEditedRef, currentItem, preview, timers>>

\* the rest of handleDownload: try or catch, then finally
DownloadDone ==
  /\ loading' = FALSE
  /\ Rerender(documentData, FALSE, pageContentRefs, localEditedRef)
  /\ UNCHANGED <<outside, documentData, localEditedRef, currentItem, preview, timers>>

DownloadSuccess ==
  \E req \in Pending("export") :
    /\ Settle(req)
    /\ DownloadDone
    /\ lastOp' = OpSnack("DownloadSuccess", NoKey,
                         Snack(<<"Downloaded ", "filename">>, "success"))

DownloadFail ==
  \E req \in Pending("export"), detail \in Details :
    /\ Settle(req)
    /\ DownloadDone
    /\ lastOp' = OpError("DownloadFail", NoKey, Snack(<<"Export failed">>, "error"),
                         detail)

\* the lifecycle of the viewed document: load, edit, save, regenerate, preview
\* and export; searching is the subject of SpecSearch
Next ==
  \/ FetchStart \/ FetchSuccess \/ FetchFail
  \/ Edit
  \/ SaveStart \/ SaveSuccess \/ SaveFail
  \/ handleOpenDialog \/ handleCloseDialog
  \/ RegenerateStart \/ RegenerateSuccess \/ RegenerateFail
  \/ RegenerateDocumentStart \/ RegenerateDocumentSuccess \/ RegenerateDocumentFail
  \/ PopulateTimer
  \/ handleOpenPreview \/ handleClosePreview
  \/ DownloadStart \/ DownloadSuccess \/ DownloadFail

Spec == Init /\ [][Next]_vars

(* ------------- assembly over a document of several regions ------------- *)
\* documents with two pages and one section, each region empty or holding a
\* word of its own
AssembleDocs ==
  {normalizeDocument([pages |-> <<[name |-> "A", content |-> a],
                                  [name |-> "B", content |-> b]>>,
                      sections |-> <<[name |-> "C", content |-> c]>>]) :
     a \in {EmptyHtml, <<"A">>}, b \in {EmptyHtml, <<"B">>}, c \in {EmptyHtml, <<"C">>}}

\* a loaded document at the start of the commit that follows resetRefs: no
\* element is registered yet
InitAssemble ==
  /\ documentData \in AssembleDocs
  /\ loading = FALSE
  /\ pageContentRefs = EmptyObject
  /\ localEditedRef = resetRefsFlags(documentData)
  /\ currentItem = Null
  /\ openPreview = FALSE
  /\ previewUrl = NoUrl
  /\ objectURLs = {}
  /\ inflight = EmptyBag
  /\ timers = <<>>
  /\ lastOp = Op("mount", NoKey)
  /\ ViewerShown

\* the ref callback of one editor runs and registers its element
RefCallback ==
  \E k \in RegionKeys(documentData) :
    /\ EditorsShown(documentData, loading)
    /\ pageContentRefs' =
         Put(pageContentRefs, k,
             RefCallbackHtml(localEditedRef, k,
                             IF k \in DOMAIN Dom THEN Dom[k] ELSE EmptyHtml,
                             ItemAt(documentData, k)))
    /\ lastOp' = Op("RefCallback", k)
    /\ UNCHANGED <<outside, documentData, loading, localEditedRef, currentItem, preview,
                   inflight, timers>>

NextAssemble ==
  \/ RefCallback
  \/ Edit
  \/ handleOpenPreview \/ handleClosePreview
  \/ DownloadStart \/ DownloadSuccess \/ DownloadFail

SpecAssemble == InitAssemble /\ [][NextAssemble]_vars

(* -------------- search over a document of several regions -------------- *)
\* markup of the searched documents: letters of both cases, a line break and
\* an ampersand
SearchContents == {<<>>, <<"a">>, <<"B">>, <<"a", "B", "a">>, <<"\n">>, Amp}

\* documents with two pages and one section
SearchDocs ==
  {normalizeDocument([pages |-> <<("name" :> "A") @@ a, ("name" :> "B") @@ b>>,
                      sections |-> <<("name" :> "C") @@ c>>]) :
     a \in Opt("content", SearchContents), b \in Opt("content", SearchContents),
     c \in Opt("content", SearchContents)}

\* a loaded document after its commit: every editor shows its region's content
InitSearch ==
  /\ documentData \in SearchDocs
  /\ loading = FALSE
  /\ pageContentRefs = Commit(documentData, FALSE, EmptyObject,
                              resetRefsFlags(documentData), EmptyObject)
  /\ localEditedRef = resetRefsFlags(documentData)
  /\ currentItem = Null
  /\ openPreview = FALSE
  /\ previewUrl = NoUrl
  /\ objectURLs = {}
  /\ inflight = EmptyBag
  /\ timers = <<>>
  /\ lastOp = Op("mount", NoKey)
  /\ ViewerShown

NextSearch == handleSearch \/ Edit

SpecSearch == InitSearch /\ [][NextSearch]_vars

(* ------------------- search, then save, preview, export ---------------- *)
\* a loaded document after its commit and its repopulation: every editor shows
\* its region's content and nothing is pending
InitHighlight ==
  /\ documentData \in {normalizeDocument(p) : p \in ServerPayloads}
  /\ loading = FALSE
  /\ pageContentRefs = Commit(documentData, FALSE, EmptyObject,
                              resetRefsFlags(documentData), EmptyObject)
  /\ localEditedRef = resetRefsFlags(documentData)
  /\ currentItem = Null
  /\ openPreview = FALSE
  /\ previewUrl = NoUrl
  /\ objectURLs = {}
  /\ inflight = EmptyBag
  /\ timers = <<>>
  /\ lastOp = Op("mount", NoKey)
  /\ ViewerShown

\* searching and typing, and the handlers that read the editors' markup; a
\* save is issued and fails (what its success does is the subject of Spec)
NextHighlight ==
  \/ handleSearch
  \/ Edit
  \/ SaveStart \/ SaveFail
  \/ handleOpenPreview \/ handleClosePreview
  \/ DownloadStart \/ DownloadSuccess \/ DownloadFail

SpecHighlight == InitHighlight /\ [][NextHighlight]_vars

(* --------------------- the normalizer on raw payloads ------------------ *)
\* raw entries of a pages or sections array: null, or an object in which
\* content, type and layout may be absent and type and layout may be empty
RawItems ==
  {Null} \cup
  {("name" :> "A") @@ c @@ t @@ l :
     c \in Opt("content", {<<"a">>}),
     t \in Opt("type", {"", "table"}),
     l \in Opt("layout", {"", "grid"})}

RawArrays == {<<>>} \cup {<<i>> : i \in RawItems}

\* res.data.document: absent, or an object in which pages and sections may be
\* absent
RawPayloads ==
  {Null} \cup
  {("title" :> "T") @@ p @@ s : p \in Opt("pages", RawArrays), s \in Opt("sections", RawArrays)}

\* a response has arrived with some payload; nothing is loaded yet
InitNormalize ==
  /\ documentData = Null
  /\ loading = TRUE
  /\ pageContentRefs = EmptyObject
  /\ localEditedRef = EmptyObject
  /\ currentItem = Null
  /\ openPreview = FALSE
  /\ previewUrl = NoUrl
  /\ objectURLs = {}
  /\ inflight = EmptyBag
  /\ timers = <<>>
  /\ \E d \in RawPayloads :
       lastOp = [op |-> "response", key |-> NoKey, setSnack |-> Null, payload |-> d]
  /\ ViewerShown

\* const normalizedDoc = normalizeDocument(doc); setDocumentData(normalizedDoc)
normalizeResponse ==
  /\ lastOp.op = "response"
  /\ documentData' = normalizeDocument(lastOp.payload)
  /\ lastOp' = [lastOp EXCEPT !.op = "normalizeDocument"]
  /\ UNCHANGED <<outside, loading, pageContentRefs, localEditedRef, currentItem, preview,
                 inflight, timers>>

\* normalizeDocument applied to the Document it produced
normalizeAgain ==
  /\ lastOp.op \in {"normalizeDocument", "normalizeAgain"}
  /\ documentData' = normalizeDocument(documentData)
  /\ lastOp' = [lastOp EXCEPT !.op = "normalizeAgain"]
  /\ UNCHANGED <<outside, loading, pageContentRefs, localEditedRef, currentItem, preview,
                 inflight, timers>>

NextNormalize == normalizeResponse \/ normalizeAgain

SpecNormalize == InitNormalize /\ [][NextNormalize]_vars

(* ------------------ the upload page and its draft cache ---------------- *)
\* the viewer's state, which the upload, login and signup pages do not touch
viewer ==
  <<documentData, pageContentRefs, localEditedRef, currentItem, openPreview,
    previewUrl, objectURLs>>

\* localStorage.setItem(key, value)
setItem(storage, key, value) == (key :> value) @@ storage

\* localStorage.removeItem(key)
removeItem(storage, key) == [k \in DOMAIN storage \ {key} |-> storage[k]]

\* a signed-in user's localStorage without a draft
SignedIn == [user |-> [role |-> "user"], token |-> "token"]

\* texts of the textarea: empty, blank, or with content
RawTexts == {<<>>, <<" ">>, <<"t", " ">>}

\* res.data.raw_text || res.data.extracted_text || "" of an upload
ExtractedTexts == {<<>>, <<"u">>}

\* doc.raw_text || "" of a listed document
DocTexts == {<<>>, <<"d">>}

\* String.prototype.trimStart, with the space as the white space of the model
RECURSIVE trimStart(_)
trimStart(str) ==
  IF str # <<>> /\ Head(str) = " " THEN trimStart(Tail(str)) ELSE str

\* String.prototype.trimEnd
RECURSIVE trimEnd(_)
trimEnd(str) ==
  IF str # <<>> /\ str[Len(str)] = " "
  THEN trimEnd(SubSeq(str, 1, Len(str) - 1)) ELSE str

\* String.prototype.trim
trim(str) == trimEnd(trimStart(str))

\* rawText.trim().length > 0
hasContent == Len(trim(rawText)) > 0

\* the upload page is the page shown
UploadMounted == pathname = "/upload"

\* useState(localStorage.getItem("draft_raw_text") || "") on the mount of the
\* upload page, with any draft an earlier visit left
InitUpload ==
  /\ localStorage \in {SignedIn} \cup
                      {setItem(SignedIn, "draft_raw_text", t) : t \in RawTexts}
  /\ rawText = IF Has(localStorage, "draft_raw_text")
               THEN localStorage.draft_raw_text ELSE <<>>
  /\ pathname = "/upload"
  /\ loading = FALSE
  /\ inflight = EmptyBag
  /\ timers = <<>>
  /\ lastOp = Op("mount", NoKey)
  /\ documentData = Null
  /\ pageContentRefs = EmptyObject
  /\ localEditedRef = EmptyObject
  /\ currentItem = Null
  /\ openPreview = FALSE
  /\ previewUrl = NoUrl
  /\ objectURLs = {}

\* a handler run of the upload page that wrote or submitted the text `text`
OpText(name, sn, text) == [op |-> name, key |-> NoKey, setSnack |-> sn, text |-> text]

\* setRawText of a continuation: without effect once the page is unmounted
setRawText(text) == rawText' = IF UploadMounted THEN text ELSE rawText

handlePasteChange ==
  \E value \in RawTexts \ {rawText} :
    /\ UploadMounted
    /\ rawText' = value
    /\ localStorage' = setItem(localStorage, "draft_raw_text", value)
    /\ lastOp' = OpText("handlePasteChange", Null, value)
    /\ UNCHANGED <<viewer, loading, inflight, timers, pathname>>

\* handleFileUpload up to its await; the Upload control is shown while the text
\* has no content and is not disabled while loading
UploadStart ==
  /\ UploadMounted
  /\ ~hasContent
  /\ CanIssue
  /\ loading' = TRUE
  /\ Issue(Request("upload", NoKey))
  /\ lastOp' = Op("UploadStart", NoKey)
  /\ UNCHANGED <<viewer, rawText, localStorage, timers, pathname>>

\* the upload succeeded: the text is set and cached, then fetchDocs is awaited
UploadSuccess ==
  \E req \in Pending("upload"), extracted \in ExtractedTexts :
    /\ inflight' = (inflight (-) SetToBag({req})) (+) SetToBag({Request("fetchDocs", NoKey)})
    /\ setRawText(extracted)
    /\ localStorage' = setItem(localStorage, "draft_raw_text", extracted)
    /\ lastOp' = OpText("UploadSuccess", Null, extracted)
    /\ UNCHANGED <<viewer, loading, timers, pathname>>

\* fetchDocs returned (it catches its own errors): snackbar, then finally
FetchDocsDone ==
  \E req \in Pending("fetchDocs") :
    /\ Settle(req)
    /\ loading' = FALSE
    /\ lastOp' = OpSnack("FetchDocsDone", NoKey,
                         Snack(<<"File uploaded and text extracted">>, "success"))
    /\ UNCHANGED <<viewer, rawText, localStorage, timers, pathname>>

UploadFail ==
  \E req \in Pending("upload"), detail \in Details :
    /\ Settle(req)
    /\ loading' = FALSE
    /\ lastOp' = OpError("UploadFail", NoKey,
                   Snack(IF detail # "" THEN <<detail>> ELSE <<"Upload/extract failed">>,
                         "error"),
                   detail)
    /\ UNCHANGED <<viewer, rawText, localStorage, timers, pathname>>

\* handleGenerate up to its first await (the GET of the configuration), or its
\* early return when the text is blank; the button is disabled while loading
handleGenerate ==
  /\ UploadMounted
  /\ ~loading
  /\ IF ~hasContent
     THEN /\ lastOp' = OpText("GenerateRejected",
                              Snack(<<"Please upload or paste text first">>, "error"),
                              rawText)
          /\ UNCHANGED <<loading, inflight>>
     ELSE /\ CanIssue
          /\ loading' = TRUE
          /\ Issue([op |-> "config", key |-> NoKey, raw_text |-> rawText])
          /\ lastOp' = OpText("GenerateStart", Null, rawText)
  /\ UNCHANGED <<viewer, rawText, localStorage, timers, pathname>>

\* the configuration arrived, or its failure was caught: the POST is issued
\* with the text the handler was called with
ConfigDone ==
  \E req \in Pending("config") :
    /\ inflight' = (inflight (-) SetToBag({req}))
                     (+) SetToBag({[op |-> "generate", key |-> NoKey,
                                    raw_text |-> req.raw_text]})
    /\ lastOp' = OpText("ConfigDone", Null, req.raw_text)
    /\ UNCHANGED <<viewer, loading, rawText, localStorage, timers, pathname>>

\* a failed generate that removes the draft
GenerateFail_clears ==
  \E req \in Pending("generate"), detail \in Details :
    /\ Settle(req)
    /\ loading' = FALSE
    /\ localStorage' = removeItem(localStorage, "draft_raw_text")
    /\ lastOp' = OpError("GenerateFail", NoKey,
                   Snack(IF detail # "" THEN <<detail>>
                         ELSE <<"Failed to generate document">>, "error"),
                   detail)
    /\ UNCHANGED <<viewer, rawText, timers, pathname>>

\* the POST was rejected: catch, then finally
GenerateFail ==
  \E req \in Pending("generate"), detail \in Details :
    /\ Settle(req)
    /\ loading' = FALSE
    /\ lastOp' = OpError("GenerateFail", NoKey,
                   Snack(IF detail # "" THEN <<detail>>
                         ELSE <<"Failed to generate document">>, "error"),
                   detail)
    /\ UNCHANGED <<viewer, rawText, localStorage, timers, pathname>>

\* the POST was answered without an id: the handler throws, catch, finally
GenerateNoId ==
  \E req \in Pending("generate") :
    /\ Settle(req)
    /\ loading' = FALSE
    /\ lastOp' = OpError("GenerateNoId", NoKey,
                         Snack(<<"Failed to generate document">>, "error"), "")
    /\ UNCHANGED <<viewer, rawText, localStorage, timers, pathname>>

\* the POST was answered with an id: the draft is removed and the viewer of
\* the new document is shown
GenerateSuccess ==
  \E req \in Pending("generate") :
    /\ Settle(req)
    /\ loading' = FALSE
    /\ localStorage' = removeItem(localStorage, "draft_raw_text")
    /\ pathname' = "/viewer"
    /\ lastOp' = OpText("GenerateSuccess", Null, req.raw_text)
    /\ UNCHANGED <<viewer, rawText, timers>>

\* the button is disabled while loading and shown while the text has content
handleClear ==
  /\ UploadMounted
  /\ hasContent
  /\ ~loading
  /\ rawText' = <<>>
  /\ localStorage' = removeItem(localStorage, "draft_raw_text")
  /\ lastOp' = Op("handleClear", NoKey)
  /\ UNCHANGED <<viewer, loading, inflight, timers, pathname>>

handleLoadDoc ==
  \E text \in DocTexts :
    /\ UploadMounted
    /\ rawText' = text
    /\ localStorage' = setItem(localStorage, "draft_raw_text", text)
    /\ lastOp' = OpText("handleLoadDoc", Null, text)
    /\ UNCHANGED <<viewer, loading, inflight, timers, pathname>>

handleNewDoc ==
  /\ UploadMounted
  /\ rawText' = <<>>
  /\ localStorage' = removeItem(localStorage, "draft_raw_text")
  /\ lastOp' = Op("handleNewDoc", NoKey)
  /\ UNCHANGED <<viewer, loading, inflight, timers, pathname>>

NextUpload ==
  \/ handlePasteChange
  \/ UploadStart \/ UploadSuccess \/ FetchDocsDone \/ UploadFail
  \/ handleGenerate \/ ConfigDone
  \/ GenerateSuccess \/ GenerateNoId \/ GenerateFail
  \/ handleClear \/ handleLoadDoc \/ handleNewDoc

SpecUpload == InitUpload /\ [][NextUpload]_vars

(* ---------------- routes, login, signup and logout ---------------------- *)
\* the routes of App
PublicPaths == {"/login", "/signup"}

ProtectedPaths == {"/upload", "/configure", "/viewer", "/admin"}

\* res.data.user.role of a login or signup response
Roles == {"user", "superadmin"}

\* what ProtectedRoute renders for the route path: the page itself, or the
\* page its <Navigate replace> leads to
ProtectedRoute(path, storage) ==
  IF ~(Has(storage, "user") /\ Has(storage, "token")) THEN "/login"
  ELSE IF path = "/admin" /\ storage.user.role \notin {"superadmin"} THEN "/upload"
  ELSE path

\* the page Routes renders for a location
Route(path, storage) ==
  IF path \in ProtectedPaths THEN ProtectedRoute(path, storage) ELSE path

\* the number of copies of req in bag B
Copies(B, req) == IF req \in DOMAIN B THEN B[req] ELSE 0

\* the page shown is replaced: the requests of the page that was unmounted
\* stay in flight, but their setLoading no longer reaches a mounted page
Orphaned(B) ==
  [r \in {[s EXCEPT !.live = FALSE] : s \in BagToSet(B)} |->
     Copies(B, r) + Copies(B, [r EXCEPT !.live = TRUE])]

\* the location changes to path: Routes renders, the guard decides, and a
\* page other than the one shown is mounted with loading false
Show(path, storage) ==
  LET to == Route(path, storage) IN
    /\ pathname' = to
    /\ IF to = pathname
       THEN UNCHANGED <<loading, inflight>>
       ELSE loading' = FALSE /\ inflight' = Orphaned(inflight)

\* the app is loaded at some location with whatever an earlier visit stored
InitAuth ==
  /\ \E u \in Opt("user", {[role |-> r] : r \in Roles}),
        t \in Opt("token", {"token"}), path \in PublicPaths \cup ProtectedPaths :
       /\ localStorage = u @@ t
       /\ pathname = Route(path, localStorage)
  /\ rawText = <<>>
  /\ loading = FALSE
  /\ inflight = EmptyBag
  /\ timers = <<>>
  /\ lastOp = Op("mount", NoKey)
  /\ documentData = Null
  /\ pageContentRefs = EmptyObject
  /\ localEditedRef = EmptyObject
  /\ currentItem = Null
  /\ openPreview = FALSE
  /\ previewUrl = NoUrl
  /\ objectURLs = {}

\* a navigation of the router within the loaded app: a link or button of the
\* page shown, or Back / Forward over the locations visited
navigate ==
  \E path \in PublicPaths \cup ProtectedPaths :
    /\ path # pathname
    /\ Show(path, localStorage)
    /\ lastOp' = [op |-> "navigate", key |-> NoKey, setSnack |-> Null, to |-> path]
    /\ UNCHANGED <<viewer, rawText, localStorage, timers>>

\* Logout of the Navbar, which the protected pages show
handleLogout ==
  /\ pathname \in ProtectedPaths
  /\ localStorage' = removeItem(removeItem(localStorage, "user"), "token")
  /\ Show("/login", localStorage')
  /\ lastOp' = Op("handleLogout", NoKey)
  /\ UNCHANGED <<viewer, rawText, timers>>

\* handleLogin / handleSignup up to the await
Submit(name) ==
  /\ loading' = TRUE
  /\ Issue([op |-> name, key |-> NoKey, live |-> TRUE])
  /\ lastOp' = Op(name \o "Start", NoKey)
  /\ UNCHANGED <<viewer, rawText, localStorage, timers, pathname>>

\* the call succeeded: user and token are stored, the navigation is scheduled
\* 600 ms later, and finally sets loading to false on the page that submitted
Succeed(req, user, to, msg) ==
  /\ Settle(req)
  /\ localStorage' = setItem(setItem(localStorage, "user", user), "token", "token")
  /\ timers' = Append(timers, [op |-> "navigate", to |-> to])
  /\ loading' = IF req.live THEN FALSE ELSE loading
  /\ lastOp' = OpSnack(req.op \o "Success", NoKey, Snack(msg, "success"))
  /\ UNCHANGED <<viewer, rawText, pathname>>

\* the call was rejected: the catch shows err.friendlyMessage, which the
\* interceptor sets to the detail or else to the message of the error
Reject(req, detail) ==
  /\ Settle(req)
  /\ loading' = IF req.live THEN FALSE ELSE loading
  /\ lastOp' = OpError(req.op \o "Fail", NoKey,
                 Snack(IF detail # "" THEN <<detail>> ELSE <<"error.message">>,
                       "error"),
                 detail)
  /\ UNCHANGED <<viewer, rawText, localStorage, timers, pathname>>

\* the button is disabled while the page is loading
LoginStart ==
  /\ pathname = "/login"
  /\ ~loading
  /\ CanIssue
  /\ Submit("login")

LoginSuccess ==
  \E req \in Pending("login"), role \in Roles :
    /\ CanSchedule
    /\ Succeed(req, [role |-> role],
               IF role = "superadmin" THEN "/admin" ELSE "/upload",
               <<"Login successful">>)

LoginFail ==
  \E req \in Pending("login"), detail \in Details :
    /\ req.op = "login"
    /\ Reject(req, detail)

SignupStart ==
  /\ pathname = "/signup"
  /\ ~loading
  /\ CanIssue
  /\ Submit("signup")

SignupSuccess ==
  \E req \in Pending("signup"), role \in Roles :
    /\ CanSchedule
    /\ Succeed(req, [role |-> role], "/upload", <<"Account created">>)

SignupFail ==
  \E req \in Pending("signup"), detail \in Details :
    /\ req.op = "signup"
    /\ Reject(req, detail)

\* the callback of setTimeout(..., 600) runs
NavigateTimer ==
  /\ timers # <<>>
  /\ Head(timers).op = "navigate"
  /\ timers' = Tail(timers)
  /\ Show(Head(timers).to, localStorage)
  /\ lastOp' = [op |-> "NavigateTimer", key |-> NoKey, setSnack |-> Null,
                to |-> Head(timers).to]
  /\ UNCHANGED <<viewer, rawText, localStorage>>

NextAuth ==
  \/ navigate \/ handleLogout
  \/ LoginStart \/ LoginSuccess \/ LoginFail
  \/ SignupStart \/ SignupSuccess \/ SignupFail
  \/ NavigateTimer

SpecAuth == InitAuth /\ [][NextAuth]_vars

(* ------------------------------ claims --------------------------------- *)
\* the live content of region k: the innerHTML of its registered element
Live(k) == pageContentRefs[k]

Registered == DOMAIN pageContentRefs

Content(doc, k) == ContentOr(ItemAt(doc, k))

AllClean(flags, doc) == \A k \in RegionKeys(doc) : ~IsEdited(flags, k)

RegenerateSuccessOps == {"RegenerateSuccess", "RegenerateDocumentSuccess"}

LoadSuccessOps == RegenerateSuccessOps \cup {"FetchSuccess"}

\* C1 (dirty dominance): a run of populateEditorsFromDocument, whatever document
\* it was scheduled with, leaves the live content of every region whose edited
\* flag is true as it was.
C1_DirtyDominance ==
  [][lastOp'.op = "PopulateTimer" =>
       \A k \in Registered :
         IsEdited(localEditedRef, k) => pageContentRefs'[k] = pageContentRefs[k]]_vars

\* a repopulation has run whose document differs from the live content of a
\* dirty region, and that region kept its content
C1_Witness ==
  /\ lastOp.op = "PopulateTimer"
  /\ \E k \in Registered \cap RegionKeys(lastOp.doc) :
       /\ IsEdited(localEditedRef, k)
       /\ Content(lastOp.doc, k) # Live(k)

\* C2 (unsaved edits are never discarded): in a step that is not a successful
\* fetch or regenerate, the live content of a dirty region, highlight markers
\* aside, changes only if the step is a local edit of that region.
C2_EditsNeverDiscarded ==
  [][lastOp'.op \notin LoadSuccessOps =>
       \A k \in Registered :
         (IsEdited(localEditedRef, k) /\ ~(lastOp'.op = "Edit" /\ lastOp'.key = k))
           => StripMarks(pageContentRefs'[k]) = StripMarks(pageContentRefs[k])]_vars

\* C3 (regenerate resets and repopulates): a successful regenerate of a region
\* or of the document leaves the Document equal to the normalized response,
\* every edited flag of its keys false and every region registered, and
\* schedules a repopulation with that Document; a repopulation that runs while
\* the flags of its document are clean makes every region's live content that
\* document's content.
C3_RegenerateResets ==
  [][/\ lastOp'.op \in RegenerateSuccessOps =>
          /\ documentData' = normalizeDocument(lastOp'.payload)
          /\ AllClean(localEditedRef', documentData')
          /\ RegionKeys(documentData') \subseteq DOMAIN pageContentRefs'
          /\ timers' # <<>> /\ timers'[Len(timers')] = documentData'
     /\ (lastOp'.op = "PopulateTimer" /\ AllClean(localEditedRef, Head(timers))) =>
          \A k \in RegionKeys(Head(timers)) \cap Registered :
            pageContentRefs'[k] = Content(Head(timers), k)]_vars

\* a regenerate of one region has succeeded while a sibling of that region was
\* dirty, and the sibling shows the new Document's content
C3_Witness ==
  /\ lastOp.op = "RegenerateSuccess"
  /\ \E k \in lastOp.dirtyBefore \cap Registered :
       /\ k[1] # lastOp.setSnack.message[1]
       /\ ~IsEdited(localEditedRef, k)
       /\ Live(k) = Content(documentData, k)
\* C4 (post-save lock against fetch), as claimed: when the save of region k has
\* succeeded and a fetch started after it succeeds, k's live content is the
\* same after the fetch as before it.
C4_PostSaveLock ==
  [][(lastOp'.op = "FetchSuccess" /\ lastOp'.key # NoKey /\ lastOp'.key \in Registered)
       => pageContentRefs'[lastOp'.key] = pageContentRefs[lastOp'.key]]_vars

\* C4 as amended: when the save of region k has succeeded and a fetch started
\* after it succeeds, the Document is the normalized fetched payload, k's edited
\* flag is false and k's live content is the fetched Document's content for k.
C4_FetchResetsSaved ==
  [][(lastOp'.op = "FetchSuccess" /\ lastOp'.key # NoKey) =>
       /\ documentData' = normalizeDocument(lastOp'.payload)
       /\ lastOp'.key \in DOMAIN pageContentRefs'
       /\ ~IsEdited(localEditedRef', lastOp'.key)
       /\ pageContentRefs'[lastOp'.key] = Content(documentData', lastOp'.key)]_vars

\* a fetch started right after the save of a region has succeeded, and that
\* region, locked by the save, is clean and shows the fetched content
C4_Witness ==
  /\ lastOp.op = "FetchSuccess"
  /\ lastOp.key \in lastOp.dirtyBefore \cap Registered
  /\ ~IsEdited(localEditedRef, lastOp.key)
  /\ Live(lastOp.key) = Content(normalizeDocument(lastOp.payload), lastOp.key)

\* C5 (post-save lock): a successful save of region k leaves k's edited flag
\* true and schedules a repopulation with the saved Document; a repopulation
\* that runs right after the save leaves k's live content as it was and changes
\* the live content only of regions whose flag is clean.
C5_SaveLocks ==
  [][/\ lastOp'.op = "SaveSuccess" =>
          /\ IsEdited(localEditedRef', lastOp'.key)
          /\ timers' # <<>> /\ timers'[Len(timers')] = documentData'
     /\ (lastOp.op = "SaveSuccess" /\ lastOp'.op = "PopulateTimer") =>
          /\ lastOp.key \in Registered =>
               pageContentRefs'[lastOp.key] = pageContentRefs[lastOp.key]
          /\ \A j \in Registered :
               pageContentRefs'[j] # pageContentRefs[j] => ~IsEdited(localEditedRef, j)]_vars

\* the save of a region that was clean before has succeeded, its repopulation
\* is the next to run, and the saved Document differs from the region's live
\* content
C5_Witness ==
  /\ lastOp.op = "SaveSuccess"
  /\ lastOp.key \notin lastOp.dirtyBefore
  /\ lastOp.key \in Registered
  /\ IsEdited(localEditedRef, lastOp.key)
  /\ timers = <<documentData>>
  /\ Content(documentData, lastOp.key) # Live(lastOp.key)

\* C6 (edits win over asynchronous repopulation), as claimed: the handling of a
\* successful fetch or regenerate response leaves the live content of every
\* region that was dirty when the response arrived as it was.
C6_EditsWin ==
  [][lastOp'.op \in LoadSuccessOps =>
       \A k \in Registered :
         IsEdited(localEditedRef, k) => pageContentRefs'[k] = pageContentRefs[k]]_vars

\* C6 as amended: a successful fetch or regenerate response clears the flag of
\* every region that was dirty when it arrived and schedules a repopulation
\* with the response's Document; a repopulation overwrites the live content of
\* every region of its document whose flag is clean at the time it runs; a
\* region edited in the step before a repopulation runs is not overwritten.
C6_EditsAfterResponseWin ==
  [][/\ lastOp'.op \in LoadSuccessOps =>
          /\ \A k \in lastOp'.dirtyBefore : ~IsEdited(localEditedRef', k)
          /\ timers' # <<>> /\ timers'[Len(timers')] = normalizeDocument(lastOp'.payload)
     /\ lastOp'.op = "PopulateTimer" =>
          \A k \in RegionKeys(Head(timers)) \cap Registered :
            ~IsEdited(localEditedRef, k) => pageContentRefs'[k] = Content(Head(timers), k)
     /\ (lastOp.op = "Edit" /\ lastOp'.op = "PopulateTimer") =>
          pageContentRefs'[lastOp.key] = pageContentRefs[lastOp.key]]_vars

\* a region was edited after a response was handled, the response's
\* repopulation has run with a document whose content differs, and the region
\* shows the edit
C6_Witness ==
  /\ lastOp.op = "PopulateTimer"
  /\ timers = <<>>
  /\ lastOp.doc # documentData
  /\ \E k \in Registered \cap RegionKeys(lastOp.doc) :
       /\ IsEdited(localEditedRef, k)
       /\ Live(k) = Content(documentData, k)
       /\ Live(k) # Content(lastOp.doc, k)

\* C7 (flags are cleared only by a full reset): a step in which the edited flag
\* of some region goes from true to false is a successful fetch, regenerate of
\* a region or regenerate of the document.
C7_ClearedOnlyByReset ==
  [][\A k \in DOMAIN localEditedRef :
       (IsEdited(localEditedRef, k) /\ ~IsEdited(localEditedRef', k))
         => lastOp'.op \in LoadSuccessOps]_vars

\* a full reset has cleared the flag of a region that was dirty
C7_Witness ==
  /\ lastOp.op \in LoadSuccessOps
  /\ \E k \in lastOp.dirtyBefore : ~IsEdited(localEditedRef, k)

\* C8 (failed save changes nothing): a failed save surfaces an error and leaves
\* the Document, every edited flag, every region's live content and the loading
\* state as they were.
C8_FailedSaveChangesNothing ==
  [][lastOp'.op = "SaveFail" =>
       /\ lastOp'.setSnack # Null /\ lastOp'.setSnack.severity = "error"
       /\ UNCHANGED <<documentData, localEditedRef, pageContentRefs, loading>>]_vars

\* C9 (failed regenerate): a failed regenerate of a region or of the document
\* leaves the Document and every edited flag as they were, surfaces an error
\* message and leaves the loading indicator cleared.
C9_FailedRegenerate ==
  [][lastOp'.op \in {"RegenerateFail", "RegenerateDocumentFail"} =>
       /\ UNCHANGED <<documentData, localEditedRef>>
       /\ lastOp'.setSnack # Null /\ lastOp'.setSnack.severity = "error"
       /\ ~loading']_vars

\* a regenerate has failed while a region was dirty
C9_Witness ==
  /\ lastOp.op \in {"RegenerateFail", "RegenerateDocumentFail"}
  /\ documentData # Null
  /\ \E k \in RegionKeys(documentData) : IsEdited(localEditedRef, k)

\* C10 (single whole-document regeneration): at most one regenerateDocument
\* request is in flight at any moment.
C10_SingleRegenerateDocument ==
  CopiesIn(Request("regenerateDocument", NoKey), inflight) <= 1

\* C11 (same-region saves are serialized): when the response of a save issued
\* while an earlier save of the same region was in flight has been handled and
\* the response of that earlier save is handled next, the Document is still
\* the normalized response of the later-issued save.
C11_LaterSaveWins ==
  [][(/\ lastOp.op = "SaveSuccess" /\ lastOp.later
      /\ lastOp'.op = "SaveSuccess" /\ ~lastOp'.later
      /\ lastOp'.key = lastOp.key)
       => documentData' = normalizeDocument(lastOp.payload)]_vars

\* C12 (a save replaces only the saved region): a successful save of region k
\* leaves the Document's content of every other region as it was before the
\* response was handled.
C12_SaveReplacesOnlyRegion ==
  [][lastOp'.op = "SaveSuccess" =>
       \A j \in RegionKeys(documentData) \ {lastOp'.key} :
         /\ j \in RegionKeys(documentData')
         /\ Content(documentData', j) = Content(documentData, j)]_vars

\* the live markup of region k as an assembly reads it
LiveOr(k) ==
  IF k \in RegionKeys(documentData) \cap Registered THEN Live(k) ELSE EmptyHtml

\* C13 (assembly reads live markup): the body assembled by a preview or an
\* export is the live markup of the page followed by the live markup of the
\* section, as registered when the handler is called.
C13_AssemblesLiveMarkup ==
  [][lastOp'.op \in {"handleOpenPreview", "DownloadStart"} =>
       lastOp'.joined = LiveOr(RefKey("page", 0)) \o LiveOr(RefKey("section", 0))]_vars

\* a preview has assembled a body that holds the live markup of a dirty region
\* whose Document content is different
C13_Witness ==
  /\ lastOp.op = "handleOpenPreview"
  /\ \E k \in RegionKeys(documentData) \cap Registered :
       /\ IsEdited(localEditedRef, k)
       /\ Live(k) # EmptyHtml
       /\ Content(documentData, k) = EmptyHtml
       /\ lastOp.joined # EmptyHtml
       /\ \A j \in RegionKeys(documentData) \ {k} : LiveOr(j) = EmptyHtml

\* C14 (assembly order): over a document with pages A, B and section C, the
\* body assembled by a preview or an export is the live markup of A, then of
\* B, then of C, in whatever order the three elements were registered.
C14_AssemblyOrder ==
  [][lastOp'.op \in {"handleOpenPreview", "DownloadStart"} =>
       lastOp'.joined = LiveOr(RefKey("page", 0)) \o LiveOr(RefKey("page", 1))
                          \o LiveOr(RefKey("section", 0))]_vars

\* a body holding the words of all three regions has been assembled in the
\* order A, B, C
C14_Witness ==
  /\ lastOp.op \in {"handleOpenPreview", "DownloadStart"}
  /\ lastOp.joined = <<"A", "B", "C">>

\* C15 (a failed export loses nothing): when an export fails right after it
\* was invoked, the error is reported, the Document and the edited flags are
\* as they were, every region's live content is, highlight markers aside, as
\* it was, and assembling again gives the body of the failed attempt.
C15_FailedExportLosesNothing ==
  [][(lastOp.op = "DownloadStart" /\ lastOp'.op = "DownloadFail") =>
       /\ lastOp'.setSnack # Null /\ lastOp'.setSnack.severity = "error"
       /\ UNCHANGED <<documentData, localEditedRef>>
       /\ \A k \in Registered :
            StripMarks(pageContentRefs'[k]) = StripMarks(pageContentRefs[k])
       /\ StripMarks(Assemble(documentData', pageContentRefs'))
            = StripMarks(lastOp.joined)]_vars

\* C16 (preview URLs are released): the object URLs that are not revoked are
\* the URL of the open preview, when a preview is open, and none otherwise.
C16_PreviewUrlReleased ==
  objectURLs = IF openPreview THEN {previewUrl} ELSE {}

\* a preview has been opened and its URL is the only one not revoked
C16_Witness ==
  /\ openPreview /\ previewUrl # NoUrl
  /\ lastOp.op = "handleOpenPreview"
  /\ objectURLs = {previewUrl}

\* the regions of a document with two pages and one section, in search order
SearchOrder == <<RefKey("page", 0), RefKey("page", 1), RefKey("section", 0)>>

\* the Document's markup of region k contains q, letter case aside
ContainsText(k, q) ==
  Includes(toLowerCase(Content(documentData, k)), toLowerCase(q))

\* C17 (first match in order, NotFound otherwise): a search for q selects the
\* first region, pages before sections, whose markup contains q case-
\* insensitively, and signals "Not found" exactly when no region's markup
\* contains q (of the searches that returned; C29 is about those that threw).
C17_FirstMatchOrNotFound ==
  [][(lastOp'.op = "handleSearch" /\ lastOp'.error = "") =>
       LET q == lastOp'.search
           hits == {i \in DOMAIN SearchOrder : ContainsText(SearchOrder[i], q)}
       IN IF hits = {}
          THEN lastOp'.key = NoKey /\ lastOp'.setSnack = Snack(<<"Not found">>, "info")
          ELSE /\ lastOp'.setSnack = Null
               /\ \E i \in hits : /\ lastOp'.key = SearchOrder[i]
                                  /\ \A j \in hits : i <= j]_vars

\* the number of mark elements open after each position of h never exceeds
\* one and is zero at the end: no marker is nested or left open
RECURSIVE MarkDepthOk(_, _)
MarkDepthOk(h, depth) ==
  IF h = <<>> THEN depth = 0
  ELSE IF Head(h) = "<mark>" THEN depth = 0 /\ MarkDepthOk(Tail(h), 1)
  ELSE IF Head(h) = "</mark>" THEN depth = 1 /\ MarkDepthOk(Tail(h), 0)
  ELSE MarkDepthOk(Tail(h), depth)

\* the occurrences of q in the text of h, counted from the left without overlap
RECURSIVE Occurrences(_, _)
Occurrences(str, q) ==
  IF Len(str) < Len(q) THEN 0
  ELSE IF toLowerCase(SubSeq(str, 1, Len(q))) = toLowerCase(q)
       THEN 1 + Occurrences(SubSeq(str, Len(q) + 1, Len(str)), q)
       ELSE Occurrences(Tail(str), q)

\* the text of every mark element of h is q, letter case aside
RECURSIVE MarksHold(_, _)
MarksHold(h, q) ==
  IF h = <<>> THEN TRUE
  ELSE IF Head(h) = "<mark>"
       THEN /\ Len(h) >= Len(q) + 2
            /\ toLowerCase(SubSeq(h, 2, Len(q) + 1)) = toLowerCase(q)
            /\ h[Len(q) + 2] = "</mark>"
            /\ MarksHold(SubSeq(h, Len(q) + 3, Len(h)), q)
       ELSE MarksHold(Tail(h), q)

MarkCount(h) == Len(SelectSeq(h, LAMBDA t : t = "<mark>"))

\* C18 (search is idempotent): a search that directly repeats the previous
\* search selects the same region and leaves every editor as the previous
\* search left it; after any search the selected editor holds no nested or
\* open marker, every marker wraps one occurrence of the search text and
\* there are as many markers as occurrences.
C18_SearchIdempotent ==
  [][lastOp'.op = "handleSearch" =>
       /\ (lastOp.op = "handleSearch" /\ lastOp.search = lastOp'.search) =>
            /\ lastOp'.key = lastOp.key
            /\ lastOp'.setSnack = lastOp.setSnack
            /\ pageContentRefs' = pageContentRefs
       /\ lastOp'.key \in DOMAIN pageContentRefs' =>
            LET h == pageContentRefs'[lastOp'.key]
            IN /\ MarkDepthOk(h, 0)
               /\ MarksHold(h, lastOp'.search)
               /\ MarkCount(h) = Occurrences(StripMarks(h), lastOp'.search)]_vars

\* C19 (normalization is idempotent): normalizing the Document that the
\* normalizer produced from a payload d gives that Document again:
\* normalizeDocument(normalizeDocument(d)) = normalizeDocument(d).
C19_NormalizeIdempotent ==
  [][lastOp'.op = "normalizeAgain" =>
       /\ documentData' = normalizeDocument(lastOp'.payload)
       /\ documentData' = documentData]_vars

\* a payload without a pages array and with a section that has no type was
\* normalized twice
C19_Witness ==
  /\ lastOp.op = "normalizeAgain"
  /\ lastOp.payload # Null
  /\ ~Has(lastOp.payload, "pages")
  /\ Has(lastOp.payload, "sections")
  /\ \E i \in DOMAIN lastOp.payload.sections :
       /\ lastOp.payload.sections[i] # Null
       /\ ~Has(lastOp.payload.sections[i], "type")
       /\ documentData.sections[i].type = "text"

\* the entries of field f of a raw payload, none when the payload or the
\* field is absent
RawEntries(d, f) == IF d # Null /\ Has(d, f) THEN d[f] ELSE <<>>

\* C20 (normalizer output), as claimed: the normalized Document has a pages and
\* a sections array, and every entry of sections carries a non-empty type and
\* every entry of pages a non-empty layout.
C20_EveryEntryTagged ==
  [][lastOp'.op = "normalizeDocument" =>
       /\ Has(documentData', "pages") /\ Has(documentData', "sections")
       /\ \A i \in DOMAIN documentData'.pages :
            /\ Has(documentData'.pages[i], "layout")
            /\ documentData'.pages[i].layout # ""
       /\ \A i \in DOMAIN documentData'.sections :
            /\ Has(documentData'.sections[i], "type")
            /\ documentData'.sections[i].type # ""]_vars

\* C20 as amended: the normalized Document has a pages and a sections array as
\* long as the payload's (empty when absent); a null entry is passed through
\* as null, and every other entry carries a non-empty layout (pages) or type
\* (sections): the payload's when it has a non-empty one, "text" otherwise.
C20_ObjectEntriesTagged ==
  [][lastOp'.op = "normalizeDocument" =>
       LET d == lastOp'.payload
           tagged(f, tag) ==
             /\ Has(documentData', f)
             /\ DOMAIN documentData'[f] = DOMAIN RawEntries(d, f)
             /\ \A i \in DOMAIN documentData'[f] :
                  LET in == RawEntries(d, f)[i]
                      out == documentData'[f][i]
                  IN IF in = Null THEN out = Null
                     ELSE /\ Has(out, tag) /\ out[tag] # ""
                          /\ out[tag] = IF Has(in, tag) /\ in[tag] # ""
                                        THEN in[tag] ELSE "text"
       IN tagged("pages", "layout") /\ tagged("sections", "type")]_vars

\* a payload without a sections array, with a null page or a page whose layout
\* is empty, has been normalized
C20_Witness ==
  /\ lastOp.op = "normalizeDocument"
  /\ lastOp.payload # Null
  /\ ~Has(lastOp.payload, "sections")
  /\ documentData.sections = <<>>
  /\ Has(lastOp.payload, "pages")
  /\ \E i \in DOMAIN lastOp.payload.pages :
       /\ lastOp.payload.pages[i] # Null
       /\ Has(lastOp.payload.pages[i], "layout")
       /\ lastOp.payload.pages[i].layout = ""
       /\ documentData.pages[i].layout = "text"

\* the handler runs that issue a request, and the kind of request each issues
StartOps ==
  [FetchStart |-> "fetch", SaveStart |-> "save", RegenerateStart |-> "regenerate",
   RegenerateDocumentStart |-> "regenerateDocument", DownloadStart |-> "export"]

\* the handler runs that handle an outcome, and the kind of request it answers
OutcomeOps ==
  [FetchSuccess |-> "fetch", FetchFail |-> "fetch",
   SaveSuccess |-> "save", SaveFail |-> "save",
   RegenerateSuccess |-> "regenerate", RegenerateFail |-> "regenerate",
   RegenerateDocumentSuccess |-> "regenerateDocument",
   RegenerateDocumentFail |-> "regenerateDocument",
   DownloadSuccess |-> "export", DownloadFail |-> "export"]

\* C22 (one request, one outcome per invocation): an invocation of fetch, save,
\* regenerate, regenerateDocument or export puts exactly one request of its
\* kind in flight; the handling of a success or of a failure takes exactly one
\* request of its kind out of flight and issues none; no other step changes
\* what is in flight, so nothing is issued again without a new invocation.
C22_OneRequestOneOutcome ==
  [][/\ lastOp'.op \in DOMAIN StartOps =>
          \E r \in BagToSet(inflight') :
            /\ r.op = StartOps[lastOp'.op]
            /\ inflight' = inflight (+) SetToBag({r})
     /\ lastOp'.op \in DOMAIN OutcomeOps =>
          \E r \in BagToSet(inflight) :
            /\ r.op = OutcomeOps[lastOp'.op]
            /\ inflight' = inflight (-) SetToBag({r})
     /\ lastOp'.op \notin DOMAIN StartOps \cup DOMAIN OutcomeOps =>
          inflight' = inflight]_vars

\* a save has failed and nothing is in flight any more
C22_Witness ==
  /\ lastOp.op = "SaveFail"
  /\ inflight = EmptyBag
  /\ documentData # Null

\* C24 (a stale save does not undo a regenerate): when the response of a save
\* is handled right after a successful regenerate (the save was in flight when
\* the regenerate succeeded), the Document is still the regenerated one and no
\* region is marked edited.
C24_StaleSaveAfterRegenerate ==
  [][(lastOp.op \in RegenerateSuccessOps /\ lastOp'.op = "SaveSuccess") =>
       /\ documentData' = documentData
       /\ AllClean(localEditedRef', documentData')]_vars

\* the requests during which the page shows the loading spinner
LoadingKinds == {"fetch", "regenerate", "regenerateDocument", "export"}

\* C25 (loading covers every request): loading is true whenever a fetch, a
\* regenerate, a regenerateDocument or an export request is in flight.
C25_LoadingWhileInFlight ==
  (\E r \in BagToSet(inflight) : r.op \in LoadingKinds) => loading

\* C27 (an edit touches one region): an onInput on region k sets the edited
\* flag of k, makes the Document's content of k the live markup of k, and
\* leaves flag, Document content and live content of every other region as
\* they were.
C27_EditTouchesOneRegion ==
  [][lastOp'.op = "Edit" =>
       LET k == lastOp'.key
       IN /\ IsEdited(localEditedRef', k)
          /\ Content(documentData', k) = pageContentRefs'[k]
          /\ \A j \in RegionKeys(documentData) \ {k} :
               /\ IsEdited(localEditedRef', j) = IsEdited(localEditedRef, j)
               /\ Content(documentData', j) = Content(documentData, j)
               /\ j \in DOMAIN pageContentRefs =>
                    pageContentRefs'[j] = pageContentRefs[j]]_vars

\* C28 (the latest id wins): when the response of a fetch issued while an
\* earlier fetch was in flight has been handled, and the response of that
\* earlier fetch is handled next and no fetch is left in flight, the Document
\* is the normalized response of the later-issued fetch.
C28_LatestFetchWins ==
  [][(/\ lastOp.op = "FetchSuccess" /\ lastOp.later
      /\ lastOp'.op = "FetchSuccess" /\ ~lastOp'.later
      /\ \A r \in BagToSet(inflight') : r.op # "fetch")
       => documentData' = normalizeDocument(lastOp.payload)]_vars

\* the handler runs that handle a rejected call
FailOps ==
  {"FetchFail", "SaveFail", "RegenerateFail", "RegenerateDocumentFail", "DownloadFail"}

\* C23 (the server's detail is preferred): when a fetch, save, regenerate or
\* export call is rejected with a detail message from the server, the message
\* shown to the user is that detail.
C23_DetailPreferred ==
  [][(lastOp'.op \in FailOps /\ lastOp'.detail # "") =>
       lastOp'.setSnack.message = <<lastOp'.detail>>]_vars

\* markup without a highlight marker
NoMark(h) == \A i \in DOMAIN h : ~IsMark(h[i])

\* C26 (highlighting is not saved or exported): the markup that a save submits
\* for its region, and the body that a preview or an export assembles, contain
\* no highlight marker (no markup of the servers or the users of this model
\* contains one, so a marker in them was injected by a search).
C26_HighlightNotSubmitted ==
  [][/\ lastOp'.op = "SaveStart" => NoMark(lastOp'.html)
     /\ lastOp'.op \in {"handleOpenPreview", "DownloadStart"} =>
          NoMark(lastOp'.joined)]_vars

\* C29 (search never throws): a search on a normalized Document in which some
\* region has no content field returns, with a match or with "Not found"; no
\* exception leaves the handler.
C29_SearchReturns ==
  [][(/\ lastOp'.op = "handleSearch"
      /\ \E k \in RegionKeys(documentData) : ~Has(ItemAt(documentData, k), "content"))
       => lastOp'.error = ""]_vars

\* the handler runs that remove the draft
DraftRemovers == {"GenerateSuccess", "handleClear", "handleNewDoc"}

\* C21 (draft cache lifecycle): the draft is removed by a generate that
\* returned an id, by Clear and by New Document, and by nothing else; a
\* generate that failed, returned no id or was rejected for a blank text
\* leaves localStorage as it was; a text edit, an upload and a load write the
\* text they set to the draft, which is the text the mounted page shows.
C21_DraftLifecycle ==
  [][/\ (Has(localStorage, "draft_raw_text") /\ ~Has(localStorage', "draft_raw_text"))
          => lastOp'.op \in DraftRemovers
     /\ lastOp'.op \in DraftRemovers => ~Has(localStorage', "draft_raw_text")
     /\ lastOp'.op \in {"GenerateFail", "GenerateNoId", "GenerateRejected"}
          => localStorage' = localStorage
     /\ lastOp'.op \in {"handlePasteChange", "UploadSuccess", "handleLoadDoc"}
          => /\ Has(localStorage', "draft_raw_text")
             /\ localStorage'.draft_raw_text = lastOp'.text
             /\ UploadMounted' => rawText' = lastOp'.text]_vars

\* a generate of a text with content has failed and the draft still holds
\* that text
C21_Witness ==
  /\ lastOp.op = "GenerateFail"
  /\ hasContent
  /\ Has(localStorage, "draft_raw_text")
  /\ localStorage.draft_raw_text = rawText

\* C30 (protected routes): a protected page is shown only while a user and a
\* token are stored, and the admin page only while the stored user's role is
\* superadmin.
C30_ProtectedOnlyWhileAllowed ==
  /\ pathname \in ProtectedPaths
       => Has(localStorage, "user") /\ Has(localStorage, "token")
  /\ pathname = "/admin"
       => Has(localStorage, "user") /\ localStorage.user.role = "superadmin"
====
